---- MODULE Spec2Model ----
(***************************************************************************)
(* State-machine model of update.py, the Sharadar download manager.        *)
(*                                                                         *)
(* The sqlite database is the function db: the names of the tables that    *)
(* exist, each mapped to its rows in insertion order.  A row is a record   *)
(* [ticker, date]; date stands for the table's watermark column and is a   *)
(* day number (day 0 is 2000-01-01), so strftime("%Y-%m-%d") and           *)
(* pd.to_datetime, which only change the representation of a whole day,    *)
(* do not appear.  Tickers are numbers, ordered as the symbols are.        *)
(* A DataFrame.to_sql call is one atomic step (one sqlite transaction).    *)
(***************************************************************************)
EXTENDS Integers, Sequences, FiniteSets, TLC

VARIABLES
    db,             \* sqlite file: table name -> rows, for the tables that exist
    today,          \* datetime.date.today() as a day number
    args,           \* parsed arguments: tables, todate, fromdate
    pc,             \* position of main: idle, loop, batch, small, accumulate, consolidate, drop
    tables,         \* the list set_tables returned
    ti,             \* index in tables of the table being processed (the loop variable t)
    ticker_chunks,  \* the batches chunks() yields for the current large table
    ci,             \* index of the batch being downloaded (the loop variable tc)
    df_downloaded,  \* what download_table returned: [err, rows]
    kwarg,          \* the filters of the get_data calls made for the current table
    report,         \* how the processing of the last table ended: [t, what]
    hist,           \* bookkeeping of the current table pass (not program state)
    runlog,         \* one record per ended run (not program state)
    call            \* the arguments [lst, n] of a call of chunks made on its own

vars == <<db, today, args, pc, tables, ti, ticker_chunks, ci, df_downloaded,
          kwarg, report, hist, runlog, call>>

-----------------------------------------------------------------------------
(* Bounds of the model *)

\* runs of main in one behaviour
MaxRuns == 2
\* update.py:326 uses batches of 1000 tickers; the model scales the batch down
ChunkSize == 2
\* calls of chunks on its own: longest list, largest ticker, largest batch size
MaxLen == 4
MaxTicker == 3
MaxN == 3

(* Program constants *)

\* pd.Timedelta("1 days") of update.py:228 and update.py:122
OneDay == 1
\* pd.Timedelta("7 days") of update.py:231
Week == 7
\* "2000-01-01", the start date tests/test_update.py:80 expects
EpochFloor == 0

-----------------------------------------------------------------------------
(* The catalog, update.py:31-44: watermark column and chunk weight *)

sharadar_tables ==
       ("TICKERS" :> [col |-> "lastupdated",  weight |-> 1])
    @@ ("EVENTS"  :> [col |-> "date",         weight |-> 1])
    @@ ("SF3A"    :> [col |-> "calendardate", weight |-> 1])
    @@ ("SF3B"    :> [col |-> "calendardate", weight |-> 1])
    @@ ("ACTIONS" :> [col |-> "date",         weight |-> 1])
    @@ ("SP500"   :> [col |-> "date",         weight |-> 1])
    @@ ("SFP"     :> [col |-> "date",         weight |-> 5])
    @@ ("SF1"     :> [col |-> "lastupdated",  weight |-> 7])
    @@ ("DAILY"   :> [col |-> "lastupdated",  weight |-> 9])
    @@ ("SEP"     :> [col |-> "date",         weight |-> 11])
    @@ ("SF2"     :> [col |-> "filingdate",   weight |-> 17])
    @@ ("SF3"     :> [col |-> "calendardate", weight |-> 21])

\* sharadar_tables.keys(), in the dict's insertion order
sharadar_keys ==
    <<"TICKERS", "EVENTS", "SF3A", "SF3B", "ACTIONS", "SP500",
      "SFP", "SF1", "DAILY", "SEP", "SF2", "SF3">>

\* (mutant) the fetched rows are staged in the table itself
CummNameSame(t) == t

\* the staging ("side") table of t: table_name = t + "_cumm"
CummName(t) == t \o "_cumm"

-----------------------------------------------------------------------------
(* Helpers on rows and sequences *)

Row(k, d) == [ticker |-> k, date |-> d]

Range(s) == {s[i] : i \in 1..Len(s)}

MaxOf(S) == CHOOSE x \in S : \A y \in S : y <= x

MinOf(S) == CHOOSE x \in S : \A y \in S : x <= y

\* sort_values([date_col, "ticker"], ascending=[False, True]): a before b
Before(a, b) == a.date > b.date \/ (a.date = b.date /\ a.ticker < b.ticker)

RECURSIVE SortRows(_)
SortRows(S) ==
    IF S = {} THEN <<>>
    ELSE LET h == CHOOSE a \in S : \A b \in S \ {a} : Before(a, b)
         IN  <<h>> \o SortRows(S \ {h})

\* sort_values(date_col, ascending=False) of SF3B: the order of rows of equal
\* date is whatever the vendor's order and the unstable sort make it
SortByDate(S) ==
    { s \in [1..Cardinality(S) -> S] :
        /\ Range(s) = S
        /\ \A i \in 1..(Cardinality(S) - 1) : s[i].date >= s[i + 1].date }

\* the orders download_table can give the fetched rows, update.py:262-265
SortedFrames(table, S) ==
    IF table = "SF3B" THEN SortByDate(S) ELSE {SortRows(S)}

RECURSIVE SortTickers(_)
SortTickers(S) ==
    IF S = {} THEN <<>>
    ELSE <<MinOf(S)>> \o SortTickers(S \ {MinOf(S)})

\* (mutant) to_sql with if_exists="replace": the table holds the new rows only
ToSqlReplace(d, name, rows) ==
    [n \in DOMAIN d \cup {name} |-> IF n = name THEN rows ELSE d[n]]

\* DataFrame.to_sql(name, if_exists="append"): creates the table when absent
ToSql(d, name, rows) ==
    IF name \in DOMAIN d
    THEN [d EXCEPT ![name] = @ \o rows]
    ELSE [n \in DOMAIN d \cup {name} |-> IF n = name THEN rows ELSE d[n]]

\* the rows of table n in database d (none when the table is absent)
StoredOf(d, n) == IF n \in DOMAIN d THEN d[n] ELSE <<>>

\* DROP TABLE name
DropTable(d, name) == [n \in DOMAIN d \ {name} |-> d[n]]

-----------------------------------------------------------------------------
(* The vendor: the rows quandl holds for each table (fixed during a behaviour) *)

VendorRows(table) ==
    CASE table = "TICKERS" -> {Row(1, 2), Row(2, 2), Row(3, 2), Row(4, 8), Row(5, 8)}
      [] table = "SEP"     -> {Row(1, 5), Row(2, 5), Row(3, 5), Row(1, 7), Row(2, 8),
                               Row(3, 9), Row(1, 10), Row(4, 6), Row(5, 11)}
      [] table = "EVENTS"  -> {Row(1, 3), Row(1, 6), Row(2, 10)}
      [] table = "SF3B"    -> {Row(1, 9), Row(2, 9)}
      [] OTHER             -> {}

\* (mutant) the end date is not part of the window
get_data_before_end(table, kw) ==
    { r \in VendorRows(table) :
        /\ kw.gte <= r.date
        /\ r.date < kw.lte
        /\ (kw.byticker => r.ticker \in kw.ticker) }

\* quandl.get_table("SHARADAR/" + table, paginate=True, **kwarg) when it answers
get_data(table, kw) ==
    { r \in VendorRows(table) :
        /\ kw.gte <= r.date
        /\ r.date <= kw.lte
        /\ (kw.byticker => r.ticker \in kw.ticker) }

-----------------------------------------------------------------------------
(* Pure parts of the program *)

\* get_today
get_today == today

\* init_dates: the end date of the window
init_dates(table) ==
    IF args.todate # {}
    THEN CHOOSE d \in args.todate : TRUE
    ELSE get_today - OneDay

\* SELECT MAX(date_col) FROM table
Watermark(rows) == MaxOf({rows[i].date : i \in 1..Len(rows)})

\* (mutant) the window starts on the watermark's day
date_start_same_day(d, table, date_end) ==
    IF table \in DOMAIN d
    THEN Watermark(d[table])
    ELSE date_end - Week

\* (mutant) the watermark is not read: the window is always the last week
date_start_last_week(d, table, date_end) == date_end - Week

\* (mutant) the watermark is read over the staged rows too
date_start_with_staged(d, table, date_end) ==
    IF table \in DOMAIN d \/ (table \o "_cumm") \in DOMAIN d
    THEN Watermark(StoredOf(d, table) \o StoredOf(d, table \o "_cumm")) + OneDay
    ELSE date_end - Week

\* download_table, update.py:224-232: the start date of the window
date_start(d, table, date_end) ==
    IF table \in DOMAIN d
    THEN Watermark(d[table]) + OneDay
    ELSE date_end - Week

\* download_table, update.py:239-242: the filters sent to the vendor
make_kwarg(d, table, tc) ==
    [ table    |-> table,
      gte      |-> date_start(d, table, init_dates(table)),
      lte      |-> init_dates(table),
      byticker |-> Len(tc) # 0,
      ticker   |-> Range(tc) ]

\* (mutant) chunks that loses the last, shorter batch
chunks_full_only(lst, n) ==
    [ k \in 1..(Len(lst) \div n) |-> SubSeq(lst, (k - 1) * n + 1, k * n) ]

\* chunks(lst, n): successive n-sized chunks of lst
chunks(lst, n) ==
    [ k \in 1..((Len(lst) + n - 1) \div n) |->
        SubSeq(lst, (k - 1) * n + 1, IF k * n < Len(lst) THEN k * n ELSE Len(lst)) ]

\* get_all_tickers: SELECT DISTINCT ticker FROM tickers, sorted
\* (sqlite table names are case-insensitive: tickers is the table TICKERS)
get_all_tickers(d) ==
    SortTickers({d["TICKERS"][i].ticker : i \in 1..Len(d["TICKERS"])})

\* set_tables: the requested tables, or the whole catalog
set_tables(a) == IF a.tables # <<>> THEN a.tables ELSE sharadar_keys

\* set_tables raises ValueError
InvalidTables(a) == \E i \in 1..Len(a.tables) : a.tables[i] \notin DOMAIN sharadar_tables

-----------------------------------------------------------------------------
(* Inputs *)

\* --tables: the lists of identifiers the user passes (the option left out,
\* which asks for the whole catalog, is not drawn; the database file exists,
\* so db_exists passes)
TableLists ==
    { <<"SEP">>, <<"EVENTS">>, <<"SF3B">>,
      <<"TICKERS", "SEP">>, <<"SEP", "TICKERS">>,
      <<"SEP", "SEP">>, <<"EVENTS", "EVENTS">>,
      <<"BOGUS", "EVENTS">>, <<"EVENTS", "BOGUS">> }

\* --todate and fromdate (the empty set: not given)
DateChoices ==
    { [todate |-> {},   fromdate |-> {}],
      [todate |-> {10}, fromdate |-> {}],
      [todate |-> {6},  fromdate |-> {}],
      [todate |-> {4},  fromdate |-> {}],
      [todate |-> {10}, fromdate |-> {8}] }

Todays == {12, 13}

\* what an earlier run stored: the sorted frame, staged twice and merged
Stored(S) == SortRows(S) \o SortRows(S)

PresetRows(t) ==
    CASE t = "TICKERS" -> Stored({Row(1, 2), Row(2, 2), Row(3, 2)})
      [] t = "SEP"     -> Stored({Row(1, 5), Row(2, 5), Row(3, 5)})
      [] t = "EVENTS"  -> Stored({Row(1, 3)})

\* the database file: new, after a first run of TICKERS, after runs of all three
Databases ==
    { [t \in S |-> PresetRows(t)] :
        S \in { {}, {"TICKERS"}, {"TICKERS", "SEP", "EVENTS"} } }

-----------------------------------------------------------------------------
(* The state machine *)

NoFrame == [err |-> FALSE, rows |-> <<>>]

NoReport == [t |-> "", what |-> ""]

NoHist == [pre |-> <<>>, got |-> <<>>, nok |-> 0, nfail |-> 0]

\* bookkeeping of a run: its number, the database it started from, how it
\* ended, whether a fetch failed, the merges it made, whether it read the
\* tickers for a large table (large) and added tickers to TICKERS after that
\* (late), the tables whose pass it began (passes); prev: how, fail, late and
\* start of the run before it; first: the start date of the first fetch
\* issued for each table since the behaviour began
NoRun ==
    [ n |-> 0, start |-> <<>>, how |-> "none", fail |-> FALSE, merged |-> <<>>,
      large |-> FALSE, late |-> FALSE, passes |-> <<>>,
      prev |-> [how |-> "none", fail |-> FALSE, late |-> FALSE, start |-> <<>>],
      first |-> <<>> ]

\* first, with the start date of table's first fetch noted
NoteFirst(first, table, gte) ==
    IF table \in DOMAIN first THEN first
    ELSE [n \in DOMAIN first \cup {table} |-> IF n = table THEN gte ELSE first[n]]

\* the distinct tickers of a sequence of rows
TickersOf(rows) == {rows[i].ticker : i \in 1..Len(rows)}

\* the variables of the process, gone when the process ends
Locals == <<tables, ti, ticker_chunks, ci, df_downloaded>>

ResetLocals ==
    /\ tables' = <<>>
    /\ ti' = 0
    /\ ticker_chunks' = <<>>
    /\ ci' = 0
    /\ df_downloaded' = NoFrame

\* main passes chunks its own arguments (update.py:326)
NoCall == [lst |-> <<>>, n |-> 0]

Init ==
    /\ db \in Databases
    /\ today \in Todays
    /\ \E l \in TableLists, dc \in DateChoices :
          args = [tables |-> l, todate |-> dc.todate, fromdate |-> dc.fromdate]
    /\ pc = "idle"
    /\ tables = <<>>
    /\ ti = 0
    /\ ticker_chunks = <<>>
    /\ ci = 0
    /\ df_downloaded = NoFrame
    /\ kwarg = <<>>
    /\ report = NoReport
    /\ hist = NoHist
    /\ runlog = [NoRun EXCEPT !.start = db]
    /\ call = NoCall

\* the table being processed
t == tables[ti]

EndRun(how) ==
    /\ pc' = "idle"
    /\ runlog' = [runlog EXCEPT !.how = how]
    /\ ResetLocals

\* main, update.py:306-318: parse_args, set_tables, db_exists
StartRun ==
    /\ pc = "idle"
    /\ runlog.n < MaxRuns
    /\ LET r == [NoRun EXCEPT !.n = runlog.n + 1, !.start = db, !.how = "running",
                               !.first = runlog.first,
                               !.prev = [how |-> runlog.how, fail |-> runlog.fail,
                                         late |-> runlog.late, start |-> runlog.start]]
       IN  IF InvalidTables(args)
           THEN /\ runlog' = [r EXCEPT !.how = "raised"]
                /\ UNCHANGED <<pc, tables, ti>>
           ELSE /\ runlog' = r
                /\ tables' = set_tables(args)
                /\ ti' = 1
                /\ pc' = "loop"
    /\ kwarg' = <<>>
    /\ report' = NoReport
    /\ hist' = NoHist
    /\ UNCHANGED <<db, today, args, call, ticker_chunks, ci, df_downloaded>>

\* main, update.py:320-326: the head of "for t in tables"
NextTable ==
    /\ pc = "loop"
    /\ IF ti > Len(tables)
       THEN /\ EndRun("complete")
            /\ UNCHANGED <<kwarg, hist>>
       ELSE /\ kwarg' = <<>>
            /\ hist' = [NoHist EXCEPT !.pre = db]
            /\ IF sharadar_tables[t].weight > 1
               THEN IF "TICKERS" \in DOMAIN db
                    THEN /\ ticker_chunks' = chunks(get_all_tickers(db), ChunkSize)
                         /\ ci' = 1
                         /\ pc' = "batch"
                         /\ runlog' = [runlog EXCEPT !.large = TRUE,
                                                     !.passes = Append(@, t)]
                         /\ UNCHANGED <<tables, ti, df_downloaded>>
                    ELSE \* pd.read_sql raises: no such table
                         EndRun("raised")
               ELSE /\ pc' = "small"
                    /\ runlog' = [runlog EXCEPT !.passes = Append(@, t)]
                    /\ UNCHANGED <<tables, ti, ticker_chunks, ci, df_downloaded>>
    /\ UNCHANGED <<db, today, args, call, report>>

\* download_table(table, args, tc): resolve the window, fetch, stage
download_table(table, tc) ==
    LET kw == make_kwarg(db, table, tc)
    IN  /\ kwarg' = Append(kwarg, kw)
        /\ \/ \* get_data raises: return 1
              /\ df_downloaded' = [err |-> TRUE, rows |-> <<>>]
              /\ hist' = [hist EXCEPT !.nfail = @ + 1]
              /\ runlog' = [runlog EXCEPT !.fail = TRUE,
                                          !.first = NoteFirst(@, table, kw.gte)]
              /\ db' = db
           \/ \* no rows: return the empty frame
              /\ get_data(table, kw) = {}
              /\ df_downloaded' = NoFrame
              /\ hist' = [hist EXCEPT !.nok = @ + 1]
              /\ runlog' = [runlog EXCEPT !.first = NoteFirst(@, table, kw.gte)]
              /\ db' = db
           \/ \* rows: sort, append to the side table, return the frame
              /\ get_data(table, kw) # {}
              /\ \E s \in SortedFrames(table, get_data(table, kw)) :
                    /\ df_downloaded' = [err |-> FALSE, rows |-> s]
                    /\ db' = ToSql(db, CummName(table), s)
                    /\ hist' = [hist EXCEPT !.nok = @ + 1, !.got = @ \o s]
              /\ runlog' = [runlog EXCEPT !.first = NoteFirst(@, table, kw.gte)]

\* main, update.py:327-344: one turn of "for tc in ticker_chunks"
DownloadBatch ==
    /\ pc = "batch"
    /\ IF ci > Len(ticker_chunks)
       THEN /\ pc' = "consolidate"
            /\ UNCHANGED <<db, ci, df_downloaded, kwarg, hist, runlog>>
       ELSE /\ download_table(t, ticker_chunks[ci])
            /\ IF df_downloaded'.err \/ Len(df_downloaded'.rows) = 0
               THEN /\ ci' = ci + 1
                    /\ pc' = "batch"
               ELSE /\ ci' = ci
                    /\ pc' = "accumulate"
    /\ UNCHANGED <<today, args, call, tables, ti, ticker_chunks, report>>

\* main, update.py:347-353: the single call of a small table
DownloadSmall ==
    /\ pc = "small"
    /\ download_table(t, <<>>)
    /\ IF df_downloaded'.err
       THEN \* continue: consolidate_results is skipped
            /\ report' = [t |-> t, what |-> "error"]
            /\ ti' = ti + 1
            /\ pc' = "loop"
       ELSE /\ pc' = IF Len(df_downloaded'.rows) # 0 THEN "accumulate" ELSE "consolidate"
            /\ UNCHANGED <<report, ti>>
    /\ UNCHANGED <<today, args, call, tables, ticker_chunks, ci>>

\* accumulate_results(df_downloaded, t, args), update.py:161-168
accumulate_results ==
    /\ pc = "accumulate"
    /\ db' = ToSql(db, CummName(t), df_downloaded.rows)
    /\ IF sharadar_tables[t].weight > 1
       THEN /\ ci' = ci + 1
            /\ pc' = "batch"
       ELSE /\ ci' = ci
            /\ pc' = "consolidate"
    /\ UNCHANGED <<today, args, call, tables, ti, ticker_chunks, df_downloaded,
                   kwarg, report, hist, runlog>>

\* consolidate_results, update.py:171-195: read the side table, append it to t
consolidate_results ==
    /\ pc = "consolidate"
    /\ IF CummName(t) \notin DOMAIN db
       THEN \* pd.read_sql raises, the bare except returns
            /\ report' = [t |-> t, what |-> "nodata"]
            /\ ti' = ti + 1
            /\ pc' = "loop"
            /\ UNCHANGED <<db, runlog>>
       ELSE /\ IF Len(db[CummName(t)]) > 0
               THEN /\ db' = ToSql(db, t, db[CummName(t)])
                    /\ report' = [t |-> t, what |-> "completed"]
                    /\ runlog' = [runlog EXCEPT
                          !.merged = Append(@, t),
                          !.late = @ \/ ( /\ t = "TICKERS"
                                          /\ runlog.large
                                          /\ ~(TickersOf(db[CummName(t)])
                                                 \subseteq TickersOf(StoredOf(db, t))) )]
               ELSE /\ report' = [t |-> t, what |-> "nodata"]
                    /\ UNCHANGED <<db, runlog>>
            /\ pc' = "drop"
            /\ ti' = ti
    /\ UNCHANGED <<today, args, call, tables, ticker_chunks, ci, df_downloaded, kwarg, hist>>

\* consolidate_results, update.py:197-200: DROP TABLE of the side table
drop_cumm ==
    /\ pc = "drop"
    /\ db' = DropTable(db, CummName(t))
    /\ ti' = ti + 1
    /\ pc' = "loop"
    /\ UNCHANGED <<today, args, call, tables, ticker_chunks, ci, df_downloaded,
                   kwarg, report, hist, runlog>>

\* the process is interrupted (killed) between two steps of main
Interrupt ==
    /\ pc # "idle"
    /\ EndRun("interrupted")
    /\ UNCHANGED <<db, today, args, call, kwarg, report, hist>>

Next ==
    \/ StartRun
    \/ NextTable
    \/ DownloadBatch
    \/ DownloadSmall
    \/ accumulate_results
    \/ consolidate_results
    \/ drop_cumm
    \/ Interrupt

Spec == Init /\ [][Next]_vars

-----------------------------------------------------------------------------
(* A run of main from start to end, nobody interrupting it and every fetch
   answered, as a function of the database it starts from *)

\* download_table and accumulate_results for one fetch, update.py:244-270 and
\* 161-168: the frame is appended to the side table twice
Staged(d, table, tc) ==
    LET rows == get_data(table, make_kwarg(d, table, tc))
    IN  IF rows = {}
        THEN d
        ELSE LET s == CHOOSE x \in SortedFrames(table, rows) : TRUE
             IN  ToSql(ToSql(d, CummName(table), s), CummName(table), s)

\* main, update.py:327-344: the first k batches of tcs fetched and staged
RECURSIVE StagedUpTo(_, _, _, _)
StagedUpTo(d, table, tcs, k) ==
    IF k = 0 THEN d ELSE Staged(StagedUpTo(d, table, tcs, k - 1), table, tcs[k])

\* consolidate_results, update.py:171-200
Consolidated(d, table) ==
    IF CummName(table) \notin DOMAIN d
    THEN d
    ELSE DropTable(IF Len(d[CummName(table)]) > 0
                   THEN ToSql(d, table, d[CummName(table)])
                   ELSE d,
                   CummName(table))

\* main, update.py:320-355: the first k tables of list processed (a large
\* table is not when the TICKERS table is absent: get_all_tickers raises)
RECURSIVE RunUpTo(_, _, _)
RunUpTo(d, list, k) ==
    IF k = 0
    THEN d
    ELSE LET e  == RunUpTo(d, list, k - 1)
             tb == list[k]
         IN  IF sharadar_tables[tb].weight > 1
             THEN IF "TICKERS" \in DOMAIN e
                  THEN LET tcs == chunks(get_all_tickers(e), ChunkSize)
                       IN  Consolidated(StagedUpTo(e, tb, tcs, Len(tcs)), tb)
                  ELSE e
             ELSE Consolidated(Staged(e, tb, <<>>), tb)

\* main: the database after the run with arguments a started on database d
RunResult(d, a) ==
    IF InvalidTables(a) THEN d ELSE RunUpTo(d, set_tables(a), Len(set_tables(a)))

-----------------------------------------------------------------------------
(* chunks called on its own, with lists and batch sizes main does not pass *)

\* the sequences over S of length at most len
SeqsUpTo(S, len) == UNION { [1..k -> S] : k \in 0..len }

\* the lists and batch sizes drawn, and the universe of 2500 tickers cut in
\* batches of 1000
Calls ==
    [lst : SeqsUpTo(1..MaxTicker, MaxLen), n : 1..MaxN]
        \cup { [lst |-> [i \in 1..2500 |-> i], n |-> 1000] }

InitChunks ==
    /\ call \in Calls
    /\ db = <<>>
    /\ today = MinOf(Todays)
    /\ args = [tables |-> <<>>, todate |-> {}, fromdate |-> {}]
    /\ pc = "idle"
    /\ tables = <<>>
    /\ ti = 0
    /\ ticker_chunks = <<>>
    /\ ci = 0
    /\ df_downloaded = NoFrame
    /\ kwarg = <<>>
    /\ report = NoReport
    /\ hist = NoHist
    /\ runlog = NoRun

\* ticker_chunks = chunks(all_tickers, n), update.py:326
CallChunks ==
    /\ pc = "idle"
    /\ call # NoCall
    /\ ticker_chunks' = chunks(call.lst, call.n)
    /\ pc' = "chunked"
    /\ UNCHANGED <<db, today, args, call, tables, ti, ci, df_downloaded, kwarg,
                   report, hist, runlog>>

NextChunks == CallChunks

SpecChunks == InitChunks /\ [][NextChunks]_vars

-----------------------------------------------------------------------------
(* Vocabulary of the properties *)

\* the Stored Tables of d, without the side tables
StoredPart(d) == [n \in DOMAIN d \cap DOMAIN sharadar_tables |-> d[n]]

\* a table pass is under way and its Stored Table is as download_table read it
InPass == pc \in {"batch", "small", "accumulate", "consolidate"}

\* the pass of table report.t has ended, or its merge is done: hist describes it
PassDone == pc \in {"loop", "drop"} /\ report.t # ""

Occurrences(s, x) == Cardinality({i \in 1..Len(s) : s[i] = x})

-----------------------------------------------------------------------------
(* C1: for a large table whose batches partly fail, the rows added to the
   Stored Table are the rows of the successful batches, each once: the
   number of rows added is the sum of the row counts of those batches
   (the side table being absent when the pass starts). *)
C1_RowsOfSuccessfulBatchesOnce ==
    ( /\ pc = "drop"
      /\ sharadar_tables[t].weight > 1
      /\ CummName(t) \notin DOMAIN hist.pre
      /\ hist.nfail > 0
      /\ Len(hist.got) > 0 )
    => /\ Len(db[t]) = Len(StoredOf(hist.pre, t)) + Len(hist.got)
       /\ db[t] = StoredOf(hist.pre, t) \o hist.got

(* C2: a complete run followed by a second complete run with the same end
   date and the same vendor rows leaves every Stored Table as the first run
   left it. *)
C2_SecondRunChangesNothing ==
    ( /\ pc = "idle"
      /\ runlog.n >= 2
      /\ runlog.how = "complete"
      /\ runlog.prev.how = "complete" )
    => StoredPart(db) = StoredPart(runlog.start)

(* C2 as amended: the same, when in the first run no fetch failed and no
   ticker was added to TICKERS after a large table had been fetched. *)
C2_SecondRunChangesNothingAfterCleanRun ==
    ( /\ pc = "idle"
      /\ runlog.n >= 2
      /\ runlog.how = "complete"
      /\ runlog.prev.how = "complete"
      /\ ~runlog.prev.fail
      /\ ~runlog.prev.late )
    => StoredPart(db) = StoredPart(runlog.start)

C2_Witness ==
    /\ pc = "idle"
    /\ runlog.n >= 2
    /\ runlog.how = "complete"
    /\ runlog.prev.how = "complete"
    /\ ~runlog.prev.fail
    /\ ~runlog.prev.late
    /\ Len(kwarg) >= 2
    /\ "SEP" \in DOMAIN db
    /\ Row(1, 10) \in Range(db["SEP"])

(* C3: with no user override, every fetch issued for a table whose Stored
   Table exists with watermark W uses the lower bound W + 1 day, so it asks
   for no row dated W or earlier. *)
C3_StartIsWatermarkPlusOne ==
    ( InPass /\ args.fromdate = {} /\ t \in DOMAIN db )
    => \A i \in 1..Len(kwarg) :
          /\ kwarg[i].gte = Watermark(db[t]) + 1
          /\ \A r \in Range(db[t]) : r.date < kwarg[i].gte

C3_Witness ==
    /\ pc = "accumulate"
    /\ args.fromdate = {}
    /\ t \in DOMAIN db
    /\ Len(kwarg) >= 2

(* C4: with no stored data and no from_date the window starts at the epoch
   floor 2000-01-01 for a small table and at end_date - 7 days for a large
   one. *)
C4_FirstWindowStart ==
    ( InPass /\ args.fromdate = {} /\ t \notin DOMAIN db )
    => \A i \in 1..Len(kwarg) :
          kwarg[i].gte = IF sharadar_tables[t].weight = 1
                         THEN EpochFloor
                         ELSE kwarg[i].lte - Week

(* C5: with no to_date the window ends today; with a to_date it ends at
   to_date. *)
C5_EndDate ==
    \A i \in 1..Len(kwarg) :
        kwarg[i].lte = IF args.todate = {} THEN today
                       ELSE CHOOSE d \in args.todate : TRUE

(* C6: when the user gives from_date, the window of every table starts at
   from_date, whatever is stored. *)
C6_FromDateIsStart ==
    args.fromdate # {}
    => \A i \in 1..Len(kwarg) : kwarg[i].gte \in args.fromdate

(* C7: a table whose window is inverted (start_date > end_date) fails with
   an invalid-range error: no fetch is issued for it. *)
C7_NoFetchOfInvertedWindow ==
    \A i \in 1..Len(kwarg) : kwarg[i].gte <= kwarg[i].lte

(* C8: a Stored Table is written only by the consolidate step, and that step
   appends the whole side table to it: resolving, fetching and staging leave
   every Stored Table as it is, so at any point of a run (an interrupt
   included) a Stored Table never holds part of the staged rows. *)
C8_OnlyConsolidateWrites ==
    [][ \A n \in DOMAIN sharadar_tables :
          /\ n \in DOMAIN db => n \in DOMAIN db'
          /\ StoredOf(db', n) # StoredOf(db, n)
             => /\ pc = "consolidate"
                /\ n = t
                /\ CummName(n) \in DOMAIN db
                /\ StoredOf(db', n) = StoredOf(db, n) \o db[CummName(n)] ]_vars

C8_Witness ==
    /\ pc = "drop"
    /\ t \in DOMAIN hist.pre
    /\ db[t] # hist.pre[t]
    /\ hist.nfail > 0

(* C9: in one run the Stored Table of a table receives at most one merge,
   also when the requested list names the table more than once. *)
C9_AtMostOneMerge ==
    \A n \in DOMAIN sharadar_tables : Occurrences(runlog.merged, n) <= 1

(* C10: when every fetch attempted for a table fails, no row is written to
   its Stored Table (it is not created either) and the table does not end
   Completed, whatever the side table held when the run started. *)
C10_AllFetchesFailed ==
    ( PassDone /\ hist.nfail > 0 /\ hist.nok = 0 )
    => /\ StoredPart(db) = StoredPart(hist.pre)
       /\ report.what # "completed"

-----------------------------------------------------------------------------
\* the run has ended without being interrupted
RunEnded == pc = "idle" /\ runlog.n >= 1 /\ runlog.how # "interrupted"

\* the requested identifiers that are in the catalog
ValidRequested(a) ==
    { a.tables[i] : i \in 1..Len(a.tables) } \cap DOMAIN sharadar_tables

(* C11: when the requested list holds an identifier that is not in the
   catalog, only that identifier fails: every other requested identifier
   that is in the catalog is still synced in the same run (its pass is begun
   and its fetch issued). *)
C11_UnknownTableOnlyFailsItself ==
    ( RunEnded /\ InvalidTables(args) )
    => \A n \in ValidRequested(args) :
          /\ Occurrences(runlog.passes, n) >= 1
          /\ n \in DOMAIN runlog.first

(* C12: a vendor fetch failure never stops the remaining work of a run: a
   run in which a fetch failed (and that nobody interrupted) ends after
   having gone through every requested table, none left unprocessed. *)
C12_FetchFailureNeverStopsRun ==
    ( RunEnded /\ runlog.fail )
    => /\ runlog.how = "complete"
       /\ runlog.passes = args.tables

\* the concatenation of the first k sequences of ss
RECURSIVE ConcatUpTo(_, _)
ConcatUpTo(ss, k) == IF k = 0 THEN <<>> ELSE ConcatUpTo(ss, k - 1) \o ss[k]

(* C13: for every list and every batch size n >= 1, chunks yields batches of
   at most n elements, all but possibly the last of exactly n, none empty,
   whose concatenation in order is the list (so every element is in exactly
   one batch and the order is kept); 2500 tickers in batches of 1000 give
   three batches of 1000, 1000 and 500. *)
C13_ChunksPartition ==
    pc = "chunked"
    => /\ \A k \in 1..Len(ticker_chunks) :
            /\ Len(ticker_chunks[k]) >= 1
            /\ Len(ticker_chunks[k]) <= call.n
            /\ k < Len(ticker_chunks) => Len(ticker_chunks[k]) = call.n
       /\ ConcatUpTo(ticker_chunks, Len(ticker_chunks)) = call.lst
       /\ ( Len(call.lst) = 2500 /\ call.n = 1000 )
          => [k \in 1..Len(ticker_chunks) |-> Len(ticker_chunks[k])]
                = <<1000, 1000, 500>>

C13_Witness ==
    /\ pc = "chunked"
    /\ Len(call.lst) = 2500
    /\ call.n = 1000
    /\ Len(ticker_chunks) = 3
    /\ Len(ticker_chunks[3]) = 500

\* s is an initial part of u
IsPrefix(s, u) == Len(s) <= Len(u) /\ SubSeq(u, 1, Len(s)) = s

(* C14: a Stored Table only grows: no step of any run removes, changes or
   truncates a row of a Stored Table (its rows stay, in place, as the first
   rows of the table after the step) or drops a Stored Table; the only table
   ever dropped is the staging table of the table being processed. *)
C14_StoredTableOnlyGrows ==
    [][ /\ \A n \in DOMAIN sharadar_tables :
              /\ n \in DOMAIN db => n \in DOMAIN db'
              /\ IsPrefix(StoredOf(db, n), StoredOf(db', n))
        /\ (DOMAIN db \ DOMAIN db') \subseteq {CummName(report.t)} ]_vars

C14_Witness ==
    /\ pc = "loop"
    /\ runlog.n = MaxRuns
    /\ report.what = "completed"
    /\ report.t \in DOMAIN runlog.start
    /\ Len(db[report.t]) > Len(runlog.start[report.t])
    /\ Len(runlog.start[report.t]) > 0
    /\ CummName(report.t) \notin DOMAIN db
    /\ CummName(report.t) \in DOMAIN runlog.start

(* C15: whenever the processing of a table in a run has ended, in whatever
   way (also after the failed fetch of a small table), the staging table of
   that table is absent or empty: no staged row is left for a later run. *)
C15_NoStagedRowsLeftBehind ==
    ( pc = "loop" /\ report.t # "" )
    => StoredOf(db, CummName(report.t)) = <<>>

\* the window download_table resolves for the current pass is one day long:
\* the day after the watermark is the end date
OneDayWindow ==
    /\ InPass
    /\ t \in DOMAIN hist.pre
    /\ Watermark(hist.pre[t]) + OneDay = init_dates(t)

\* the rows the vendor holds for the current table, dated on the end date, of
\* the tickers asked for
RowsOfEndDate ==
    { r \in VendorRows(t) :
        /\ r.date = init_dates(t)
        /\ sharadar_tables[t].weight > 1
           => \E k \in 1..Len(ticker_chunks) : r.ticker \in Range(ticker_chunks[k]) }

(* C16 (as stated): when the resolved window has start_date = end_date the
   table is skipped: no fetch is issued and neither its Stored Table nor its
   staging table changes. *)
C16_OneDayWindowSkipped ==
    OneDayWindow => ( kwarg = <<>> /\ db = hist.pre )

(* C16 (amended): when the resolved window has start_date = end_date the
   table is processed like any other: every fetch of the pass is issued with
   gte = lte = that day, only rows of that day are staged, and when no fetch
   failed they are all the rows the vendor holds for that day. *)
C16_OneDayWindowFetched ==
    ( OneDayWindow /\ pc = "consolidate" )
    => /\ Len(kwarg) >= 1
       /\ \A i \in 1..Len(kwarg) :
             kwarg[i].gte = init_dates(t) /\ kwarg[i].lte = init_dates(t)
       /\ Range(hist.got) \subseteq RowsOfEndDate
       /\ hist.nfail = 0 => Range(hist.got) = RowsOfEndDate
       /\ hist.got # <<>> => Range(hist.got) \subseteq Range(StoredOf(db, CummName(t)))

C16_Witness ==
    /\ OneDayWindow
    /\ pc = "consolidate"
    /\ hist.nfail = 0
    /\ hist.got # <<>>

\* every run so far went through all its tables (none interrupted, none raised)
OnlyCompleteRuns ==
    /\ pc = "idle"
    /\ runlog.n >= 1
    /\ runlog.how = "complete"
    /\ runlog.prev.how \in {"none", "complete"}

(* C17: the watermark never advances past rows that were not stored: after
   any sequence of completed runs, some of whose batches failed, every row
   the vendor holds for a large table and a ticker of the universe, dated
   from the start of the table's first window up to the Stored Table's
   watermark, is in the Stored Table. *)
C17_WatermarkCoversStoredRows ==
    OnlyCompleteRuns
    => \A n \in DOMAIN runlog.first \cap DOMAIN db :
          sharadar_tables[n].weight > 1
          => \A r \in VendorRows(n) :
                ( /\ "TICKERS" \in DOMAIN db
                  /\ r.ticker \in TickersOf(db["TICKERS"])
                  /\ runlog.first[n] <= r.date
                  /\ r.date <= Watermark(db[n]) )
                => r \in Range(db[n])

\* databases d and e hold the same Stored Tables with the same rows, each as
\* many times (whatever the order of the rows)
SameStoredRows(d, e) ==
    /\ DOMAIN StoredPart(d) = DOMAIN StoredPart(e)
    /\ \A n \in DOMAIN StoredPart(d) :
          \A r \in Range(d[n]) \cup Range(e[n]) :
             Occurrences(d[n], r) = Occurrences(e[n], r)

\* a run that was interrupted has been followed by a run that went through
\* all its tables, every fetch answered
CompleteAfterInterrupted ==
    /\ pc = "idle"
    /\ runlog.n = 2
    /\ runlog.how = "complete"
    /\ ~runlog.fail
    /\ runlog.prev.how = "interrupted"

(* C18: an interrupted run has no effect on the outcome of the next run:
   when an interrupted run is followed by a complete run, the Stored Tables
   after the complete run are those a single uninterrupted run on the
   database the interrupted run started from would have produced; no staged
   row left by the interrupted run is merged a second time. *)
C18_InterruptedRunHasNoEffect ==
    CompleteAfterInterrupted
    => SameStoredRows(db, RunResult(runlog.prev.start, args))

(* C19: within one run all ticker batches of a large table are fetched with
   the same window: the start date and the end date sent for batch k are
   those sent for batch 1, whatever the earlier batches staged. *)
C19_SameWindowForAllBatches ==
    ( InPass /\ sharadar_tables[t].weight > 1 )
    => \A k \in 1..Len(kwarg) :
          /\ kwarg[k].gte = kwarg[1].gte
          /\ kwarg[k].lte = kwarg[1].lte

C19_Witness ==
    /\ pc = "batch"
    /\ sharadar_tables[t].weight > 1
    /\ Len(kwarg) >= 2
    /\ kwarg[1].ticker # kwarg[2].ticker
    /\ hist.got # <<>>
    /\ Range(hist.got) \subseteq get_data(t, kwarg[1])
    /\ \E r \in Range(hist.got) : r.date > kwarg[1].gte

====
